---- MODULE Spec2Model ----
(***************************************************************************)
(* Lending endpoint of blockatlas: the three HTTP handlers ServeProviders, *)
(* ServeRates and ServeAccount, the functions getProviders, getRates and   *)
(* getAccounts they call on the registry apis (provider name -> backend),  *)
(* and the JSON encoding of the LendingProvider domain type.               *)
(*                                                                         *)
(* Go values are modelled as follows.                                      *)
(*   error      a sequence of message parts; the nil error is <<>>         *)
(*   slice      a record [nil, elems]; the nil slice and the empty non-nil *)
(*              slice differ in nil                                        *)
(*   pointer    a sequence of length 0 (nil) or 1 (the pointee)            *)
(*   float64    an integer number of basis points (finite values only)     *)
(***************************************************************************)
EXTENDS Integers, Sequences, FiniteSets, TLC

\* ------------------------------------------------------------------ bounds
MaxProviders == 2       \* provider identifiers in play
MaxReq == 1             \* longest symbol / address list of a request
MaxAssets == 2          \* longest asset list of a marshalled provider

\* ------------------------------------------------------- program constants
StatusOK == 200
StatusNotFound == 404
StatusInternalServerError == 500

ProviderTypeLending == "lending"
ProviderTypeStaking == "staking"

\* ------------------------------------------------------------ Go values
NoError == <<>>
NilSlice == [nil |-> TRUE, elems |-> <<>>]
Slice(s) == [nil |-> FALSE, elems |-> s]
NilPtr == <<>>
Ptr(v) == <<v>>

SeqsUpTo(S, n) == UNION {[1..k -> S] : k \in 0..n}
Slices(S, n) == {NilSlice} \cup {Slice(s) : s \in SeqsUpTo(S, n)}
Range(f) == {f[x] : x \in DOMAIN f}
Perms(S) == {s \in [1..Cardinality(S) -> S] : \A i, j \in DOMAIN s : s[i] = s[j] => i = j}
Count(s, v) == Cardinality({i \in DOMAIN s : s[i] = v})

\* fmt.Errorf("Unknown provider %v", provider)
Errorf(format, arg) == <<format, arg>>

\* ------------------------------------------------------------ input sets
IDNames == <<"compound", "aave", "dydx", "maker", "fulcrum">>
ProviderIDs == {IDNames[i] : i \in 1..MaxProviders}
AssetSymbols == {"ETH", "DAI"}
Addresses == {"0x1", "0x2"}
BindErrors == {<<"EOF">>}

\* ------------------------------------------------------------ domain model
DefiTokenInfo(symbol, chain, contract) ==
    [Symbol |-> symbol, Chain |-> chain, ContractAddress |-> contract]

DefiAssetInfo(asset, technical) ==
    [AssetToken |-> asset, TechnicalToken |-> technical]

AssetMetaInfo(defi) == [DefiInfo |-> defi]

AssetInfo(symbol, apy, period, supply, meta) ==
    [Symbol |-> symbol, Description |-> "", APY |-> apy, YieldPeriod |-> period,
     YieldFrequency |-> 86400, TotalSupply |-> supply, MinimumAmount |-> "0.0",
     MetaInfo |-> meta]

LendingProviderInfo(id) ==
    [ID |-> id, Description |-> "", Image |-> "", Website |-> ""]

LendingProvider(id, type, assets) ==
    [ID |-> id, Info |-> LendingProviderInfo(id), Type |-> type, Assets |-> assets]

ZeroLendingProvider == LendingProvider("", "", NilSlice)

AccountLendingContracts(address, contracts) == [Address |-> address, Contracts |-> contracts]

RatesRequest(assets) == [Assets |-> assets]
AccountRequest(addresses, assets) == [Addresses |-> addresses, Assets |-> assets]

DefiInfos ==
    {NilPtr,
     Ptr(DefiAssetInfo(DefiTokenInfo("DAI", "ETH", ""), DefiTokenInfo("cDAI", "ETH", "0x5d3a"))),
     Ptr(DefiAssetInfo(DefiTokenInfo("ETH", "ETH", "0xeeee"), DefiTokenInfo("", "", "")))}

AssetInfos ==
    {AssetInfo(s, a, 0, t, AssetMetaInfo(d)) :
        s \in AssetSymbols, a \in {0, 500}, t \in {"", "1000000.000000000000000001"},
        d \in DefiInfos}

\* ------------------------------------------------- provider backend contract
\* A backend instance; the registry is built from the backends' own names.
Backend(name) == [Name |-> name]

Registries == {[k \in S |-> Backend(k)] : S \in SUBSET ProviderIDs}

\* What one backend answers to the one method a request calls on it.
InfoAssets == {NilSlice, Slice(<<AssetInfo("DAI", 500, 0, "1000000.000000000000000001", AssetMetaInfo(NilPtr))>>)}
InfoOutcomes ==
    {[err |-> NoError, assets |-> a] : a \in InfoAssets}
        \cup {[err |-> e, assets |-> NilSlice] : e \in {<<"ProviderUnavailable">>}}

LendingAssetRates(symbol) == [Asset |-> symbol, APY |-> 500]
\* A backend may return a result, an error, or a partial result with an error.
RatesOutcomes ==
    {[ret |-> Slice(<<LendingAssetRates("ETH")>>), err |-> NoError],
     [ret |-> NilSlice, err |-> <<"ProviderUnavailable">>],
     [ret |-> Slice(<<>>), err |-> <<"InvalidAsset">>]}
AccountOutcomes ==
    {[ret |-> Slice(<<AccountLendingContracts("0x1", NilSlice)>>), err |-> NoError],
     [ret |-> NilSlice, err |-> <<"ProviderUnavailable">>],
     [ret |-> Slice(<<>>), err |-> <<"InvalidAddress">>]}

\* api.GetProviderInfo(): the backend's descriptor, whose ID is the name the
\* backend is registered under, or the backend's error.
GetProviderInfo(api, answers) ==
    IF answers[api].err # NoError
        THEN [ret |-> ZeroLendingProvider, err |-> answers[api].err]
        ELSE [ret |-> LendingProvider(api.Name, ProviderTypeLending, answers[api].assets),
              err |-> NoError]

\* api.GetCurrentLendingRates(assets)
GetCurrentLendingRates(api, assets, answers) == answers[api]

\* api.GetAccountLendingContracts(req)
GetAccountLendingContracts(api, req, answers) == answers[api]

\* One invocation of a backend method, as seen at the interface.
Call(api, method, arg, r) ==
    [api |-> api, method |-> method, arg |-> arg, ret |-> r.ret, err |-> r.err]

NoArg == <<>>

\* ------------------------------------------------------ aggregation service
\* The body of "for _, api := range apis": order is the order in which the
\* runtime visits the map's keys, acc the values of ret and of the calls made.
RECURSIVE rangeApis(_, _, _, _, _)
rangeApis(apis, order, answers, i, acc) ==
    IF i > Len(order)
        THEN acc
        ELSE LET api == apis[order[i]]
                 r == GetProviderInfo(api, answers)
                 c == Call(api, "GetProviderInfo", NoArg, r)
             IN IF r.err # NoError
                    THEN rangeApis(apis, order, answers, i + 1,
                                   [acc EXCEPT !.calls = Append(@, c)])
                    ELSE rangeApis(apis, order, answers, i + 1,
                                   [acc EXCEPT !.ret = Slice(Append(@.elems, r.ret)),
                                               !.calls = Append(@, c)])

FirstFailure(calls) ==
    IF \E i \in DOMAIN calls : calls[i].err # NoError
        THEN CHOOSE i \in DOMAIN calls :
                /\ calls[i].err # NoError
                /\ \A j \in 1..(i - 1) : calls[j].err = NoError
        ELSE 0

\* A failing backend's zero value is appended like a result.
getProviders_ignoreErr(apis, order, answers) ==
    LET r == rangeApis(apis, order, answers, 1, [ret |-> Slice(<<>>), calls |-> <<>>])
    IN [ret |-> Slice([i \in DOMAIN r.calls |-> r.calls[i].ret]), err |-> NoError,
        calls |-> r.calls, apis |-> apis]

\* The first backend error is returned instead of skipped.
getProviders_returnErr(apis, order, answers) ==
    LET r == rangeApis(apis, order, answers, 1, [ret |-> Slice(<<>>), calls |-> <<>>])
        f == FirstFailure(r.calls)
    IN IF f = 0
           THEN [ret |-> r.ret, err |-> NoError, calls |-> r.calls, apis |-> apis]
           ELSE [ret |-> NilSlice, err |-> r.calls[f].err,
                 calls |-> SubSeq(r.calls, 1, f), apis |-> apis]

\* break instead of continue: the loop stops at the first failing backend.
getProviders_break(apis, order, answers) ==
    LET all == rangeApis(apis, order, answers, 1, [ret |-> Slice(<<>>), calls |-> <<>>])
        f == FirstFailure(all.calls)
        r == IF f = 0 THEN all
             ELSE rangeApis(apis, SubSeq(order, 1, f), answers, 1,
                            [ret |-> Slice(<<>>), calls |-> <<>>])
    IN [ret |-> r.ret, err |-> NoError, calls |-> r.calls, apis |-> apis]

\* Every successful descriptor is appended twice.
getProviders_appendTwice(apis, order, answers) ==
    LET r == rangeApis(apis, order, answers, 1, [ret |-> Slice(<<>>), calls |-> <<>>])
    IN [ret |-> Slice(r.ret.elems \o r.ret.elems), err |-> NoError,
        calls |-> r.calls, apis |-> apis]

\* getProviders(apis): ret starts as the empty non-nil slice, the error is nil.
getProviders(apis, order, answers) ==
    LET r == rangeApis(apis, order, answers, 1, [ret |-> Slice(<<>>), calls |-> <<>>])
    IN [ret |-> r.ret, err |-> NoError, calls |-> r.calls, apis |-> apis]

\* The error does not carry the requested identifier.
getRates_noName(provider, req, apis, answers) ==
    IF provider \notin DOMAIN apis
        THEN [ret |-> NilSlice, err |-> Errorf("Unknown provider ", ""),
              calls |-> <<>>, apis |-> apis]
        ELSE LET api == apis[provider]
                 r == GetCurrentLendingRates(api, req.Assets, answers)
             IN [ret |-> r.ret, err |-> r.err,
                 calls |-> <<Call(api, "GetCurrentLendingRates", req.Assets, r)>>,
                 apis |-> apis]

\* The backend's error is wrapped before it is returned.
getRates_wrapErr(provider, req, apis, answers) ==
    IF provider \notin DOMAIN apis
        THEN [ret |-> NilSlice, err |-> Errorf("Unknown provider ", provider),
              calls |-> <<>>, apis |-> apis]
        ELSE LET api == apis[provider]
                 r == GetCurrentLendingRates(api, req.Assets, answers)
             IN [ret |-> r.ret,
                 err |-> IF r.err = NoError THEN NoError ELSE <<"rates: ">> \o r.err,
                 calls |-> <<Call(api, "GetCurrentLendingRates", req.Assets, r)>>,
                 apis |-> apis]

\* getRates(provider, req, apis)
getRates(provider, req, apis, answers) ==
    IF provider \notin DOMAIN apis
        THEN [ret |-> NilSlice, err |-> Errorf("Unknown provider ", provider),
              calls |-> <<>>, apis |-> apis]
        ELSE LET api == apis[provider]
                 r == GetCurrentLendingRates(api, req.Assets, answers)
             IN [ret |-> r.ret, err |-> r.err,
                 calls |-> <<Call(api, "GetCurrentLendingRates", req.Assets, r)>>,
                 apis |-> apis]

\* Only the assets of the request reach the backend.
getAccounts_dropAddresses(provider, req, apis, answers) ==
    IF provider \notin DOMAIN apis
        THEN [ret |-> NilSlice, err |-> Errorf("Unknown provider ", provider),
              calls |-> <<>>, apis |-> apis]
        ELSE LET api == apis[provider]
                 sent == AccountRequest(NilSlice, req.Assets)
                 r == GetAccountLendingContracts(api, sent, answers)
             IN [ret |-> r.ret, err |-> r.err,
                 calls |-> <<Call(api, "GetAccountLendingContracts", sent, r)>>,
                 apis |-> apis]

\* The lookup of an unknown identifier leaves an entry behind in the map.
getAccounts_insert(provider, req, apis, answers) ==
    IF provider \notin DOMAIN apis
        THEN [ret |-> NilSlice, err |-> Errorf("Unknown provider ", provider),
              calls |-> <<>>,
              apis |-> [k \in DOMAIN apis \cup {provider} |->
                            IF k \in DOMAIN apis THEN apis[k] ELSE Backend(k)]]
        ELSE LET api == apis[provider]
                 r == GetAccountLendingContracts(api, req, answers)
             IN [ret |-> r.ret, err |-> r.err,
                 calls |-> <<Call(api, "GetAccountLendingContracts", req, r)>>,
                 apis |-> apis]

\* getAccounts(provider, req, apis)
getAccounts(provider, req, apis, answers) ==
    IF provider \notin DOMAIN apis
        THEN [ret |-> NilSlice, err |-> Errorf("Unknown provider ", provider),
              calls |-> <<>>, apis |-> apis]
        ELSE LET api == apis[provider]
                 r == GetAccountLendingContracts(api, req, answers)
             IN [ret |-> r.ret, err |-> r.err,
                 calls |-> <<Call(api, "GetAccountLendingContracts", req, r)>>,
                 apis |-> apis]

\* ------------------------------------------------------------ JSON encoding
\* A JSON value; the members of an object are kept in the order written.
JNull == [kind |-> "null", str |-> "", num |-> 0, items |-> <<>>]
JString(v) == [kind |-> "string", str |-> v, num |-> 0, items |-> <<>>]
JNumber(n) == [kind |-> "number", str |-> "", num |-> n, items |-> <<>>]
JArray(items) == [kind |-> "array", str |-> "", num |-> 0, items |-> items]
JObject(members) == [kind |-> "object", str |-> "", num |-> 0, items |-> members]
Member(name, value) == [name |-> name, value |-> value]

HasMember(j, name) == \E i \in DOMAIN j.items : j.items[i].name = name
GetMember(j, name) == j.items[CHOOSE i \in DOMAIN j.items : j.items[i].name = name].value

\* `json:"contract_address,omitempty"`: an empty string is left out.
MarshalDefiTokenInfo(t) ==
    JObject(<<Member("symbol", JString(t.Symbol)), Member("chain", JString(t.Chain))>>
            \o (IF t.ContractAddress = "" THEN <<>>
                ELSE <<Member("contract_address", JString(t.ContractAddress))>>))

\* omitempty on a struct-typed field leaves nothing out: a struct is never empty.
MarshalDefiAssetInfo(d) ==
    JObject(<<Member("asset_token", MarshalDefiTokenInfo(d.AssetToken)),
              Member("technical_token", MarshalDefiTokenInfo(d.TechnicalToken))>>)

\* `json:"defi_info,omitempty"` on a pointer: a nil pointer is left out.
MarshalAssetMetaInfo(m) ==
    JObject(IF m.DefiInfo = NilPtr THEN <<>>
            ELSE <<Member("defi_info", MarshalDefiAssetInfo(m.DefiInfo[1]))>>)

\* `json:"meta_info,omitempty"` on the struct value MetaInfo: always written.
MarshalAssetInfo(a) ==
    JObject(<<Member("symbol", JString(a.Symbol)),
              Member("description", JString(a.Description)),
              Member("apy", JNumber(a.APY)),
              Member("yield_period", JNumber(a.YieldPeriod)),
              Member("yield_freq", JNumber(a.YieldFrequency)),
              Member("total_supply", JString(a.TotalSupply)),
              Member("minimum_amount", JString(a.MinimumAmount)),
              Member("meta_info", MarshalAssetMetaInfo(a.MetaInfo))>>)

MarshalLendingProviderInfo(i) ==
    JObject(<<Member("id", JString(i.ID)),
              Member("description", JString(i.Description)),
              Member("image", JString(i.Image)),
              Member("website", JString(i.Website))>>)

\* A nil slice is written as null, any other slice as an array.
MarshalLendingProvider(p) ==
    JObject(<<Member("id", JString(p.ID)),
              Member("info", MarshalLendingProviderInfo(p.Info)),
              Member("type", JString(p.Type)),
              Member("assets",
                     IF p.Assets.nil THEN JNull
                     ELSE JArray([i \in DOMAIN p.Assets.elems |->
                                     MarshalAssetInfo(p.Assets.elems[i])]))>>)

\* Decoding into a zero value: a member that is missing or null leaves the
\* field at its zero value.
StringMember(j, name) ==
    IF HasMember(j, name) /\ GetMember(j, name).kind = "string"
        THEN GetMember(j, name).str ELSE ""
NumberMember(j, name) ==
    IF HasMember(j, name) /\ GetMember(j, name).kind = "number"
        THEN GetMember(j, name).num ELSE 0
ObjectMember(j, name) ==
    IF HasMember(j, name) /\ GetMember(j, name).kind = "object"
        THEN GetMember(j, name) ELSE JObject(<<>>)

UnmarshalDefiTokenInfo(j) ==
    DefiTokenInfo(StringMember(j, "symbol"), StringMember(j, "chain"),
                  StringMember(j, "contract_address"))

UnmarshalDefiAssetInfo(j) ==
    DefiAssetInfo(UnmarshalDefiTokenInfo(ObjectMember(j, "asset_token")),
                  UnmarshalDefiTokenInfo(ObjectMember(j, "technical_token")))

UnmarshalAssetMetaInfo(j) ==
    AssetMetaInfo(IF HasMember(j, "defi_info") /\ GetMember(j, "defi_info").kind = "object"
                      THEN Ptr(UnmarshalDefiAssetInfo(GetMember(j, "defi_info")))
                      ELSE NilPtr)

UnmarshalAssetInfo(j) ==
    [Symbol |-> StringMember(j, "symbol"),
     Description |-> StringMember(j, "description"),
     APY |-> NumberMember(j, "apy"),
     YieldPeriod |-> NumberMember(j, "yield_period"),
     YieldFrequency |-> NumberMember(j, "yield_freq"),
     TotalSupply |-> StringMember(j, "total_supply"),
     MinimumAmount |-> StringMember(j, "minimum_amount"),
     MetaInfo |-> UnmarshalAssetMetaInfo(ObjectMember(j, "meta_info"))]

UnmarshalLendingProviderInfo(j) ==
    [ID |-> StringMember(j, "id"), Description |-> StringMember(j, "description"),
     Image |-> StringMember(j, "image"), Website |-> StringMember(j, "website")]

UnmarshalLendingProvider(j) ==
    [ID |-> StringMember(j, "id"),
     Info |-> UnmarshalLendingProviderInfo(ObjectMember(j, "info")),
     Type |-> StringMember(j, "type"),
     Assets |-> IF HasMember(j, "assets") /\ GetMember(j, "assets").kind = "array"
                    THEN Slice([i \in DOMAIN GetMember(j, "assets").items |->
                                   UnmarshalAssetInfo(GetMember(j, "assets").items[i])])
                    ELSE NilSlice]

LendingProviders ==
    {LendingProvider("compound", t, a) :
        t \in {ProviderTypeLending, ProviderTypeStaking}, a \in Slices(AssetInfos, MaxAssets)}

\* -------------------------------------------------------------------- state
VARIABLES
    apis,       \* the registry: provider name -> backend
    op,         \* the handler that served the last request
    param,      \* c.Params.Get("provider") of the last request
    bind,       \* the outcome of c.BindJSON(&req) of the last request
    out,        \* what getProviders / getRates / getAccounts returned to it
    calls,      \* the backend methods invoked while it was served, in order
    resp,       \* the c.JSON call that answered it
    jpc,        \* position of the encoding round trip
    input,      \* the LendingProvider being encoded
    wire,       \* its JSON encoding
    decoded     \* the LendingProvider decoded from wire

vars == <<apis, op, param, bind, out, calls, resp, jpc, input, wire, decoded>>
jsonVars == <<jpc, input, wire, decoded>>
serveVars == <<apis, op, param, bind, out, calls, resp>>

NoParam == [ok |-> FALSE, val |-> ""]
Params == {NoParam} \cup {[ok |-> TRUE, val |-> p] : p \in ProviderIDs}

NotBound == [done |-> FALSE, err |-> NoError, req |-> AccountRequest(NilSlice, NilSlice)]
Bound(req) == [done |-> TRUE, err |-> NoError, req |-> req]
BindFailed(e) == [done |-> TRUE, err |-> e, req |-> AccountRequest(NilSlice, NilSlice)]

RatesRequests == {RatesRequest(a) : a \in Slices(AssetSymbols, MaxReq)}
AccountRequests ==
    {AccountRequest(ad, a) : ad \in Slices(Addresses, MaxReq), a \in Slices(AssetSymbols, MaxReq)}

NotCalled == [called |-> FALSE, ret |-> NilSlice, err |-> NoError]
Returned(r) == [called |-> TRUE, ret |-> r.ret, err |-> r.err]

\* c.JSON(status, gin.H{"error": msg}) and c.JSON(status, DocsResponse{Docs: docs})
NoResponse == [status |-> 0, error |-> NoError, docs |-> NilSlice]
JSONError(status, msg) == [status |-> status, error |-> msg, docs |-> NilSlice]
JSONDocs(status, docs) == [status |-> status, error |-> NoError, docs |-> docs]

ServeInit ==
    /\ op = "none"
    /\ param = NoParam
    /\ bind = NotBound
    /\ out = NotCalled
    /\ calls = <<>>
    /\ resp = NoResponse

JSONIdle ==
    /\ jpc = "idle"
    /\ input = ZeroLendingProvider
    /\ wire = JNull
    /\ decoded = ZeroLendingProvider

Init ==
    /\ apis \in Registries
    /\ ServeInit
    /\ JSONIdle

ServeProviders ==
    \E order \in Perms(DOMAIN apis), answers \in [Range(apis) -> InfoOutcomes] :
        LET r == getProviders(apis, order, answers)
        IN /\ op' = "ServeProviders"
           /\ param' = NoParam
           /\ bind' = NotBound
           /\ out' = Returned(r)
           /\ calls' = r.calls
           /\ apis' = r.apis
           /\ resp' = IF r.err # NoError
                          THEN JSONError(StatusInternalServerError, r.err)
                          ELSE JSONDocs(StatusOK, r.ret)
           /\ UNCHANGED jsonVars

ServeRates ==
    /\ op' = "ServeRates"
    /\ \E p \in Params :
        /\ param' = p
        /\ IF ~p.ok
             THEN /\ resp' = JSONError(StatusNotFound, <<"Fatal: missing provider">>)
                  /\ bind' = NotBound
                  /\ out' = NotCalled
                  /\ calls' = <<>>
                  /\ apis' = apis
             ELSE \/ \E e \in BindErrors :
                        /\ bind' = BindFailed(e)
                        /\ resp' = JSONError(StatusInternalServerError,
                                             <<"Invalid request: ">> \o e)
                        /\ out' = NotCalled
                        /\ calls' = <<>>
                        /\ apis' = apis
                  \/ \E req \in RatesRequests, answers \in [Range(apis) -> RatesOutcomes] :
                        LET r == getRates(p.val, req, apis, answers)
                        IN /\ bind' = Bound(req)
                           /\ out' = Returned(r)
                           /\ calls' = r.calls
                           /\ apis' = r.apis
                           /\ resp' = IF r.err # NoError
                                          THEN JSONError(StatusInternalServerError, r.err)
                                          ELSE JSONDocs(StatusOK, r.ret)
    /\ UNCHANGED jsonVars

ServeAccount ==
    /\ op' = "ServeAccount"
    /\ \E p \in Params :
        /\ param' = p
        /\ IF ~p.ok
             THEN /\ resp' = JSONError(StatusNotFound, <<"Fatal: missing provider">>)
                  /\ bind' = NotBound
                  /\ out' = NotCalled
                  /\ calls' = <<>>
                  /\ apis' = apis
             ELSE \/ \E e \in BindErrors :
                        /\ bind' = BindFailed(e)
                        /\ resp' = JSONError(StatusInternalServerError,
                                             <<"Invalid request: ">> \o e)
                        /\ out' = NotCalled
                        /\ calls' = <<>>
                        /\ apis' = apis
                  \/ \E req \in AccountRequests, answers \in [Range(apis) -> AccountOutcomes] :
                        LET r == getAccounts(p.val, req, apis, answers)
                        IN /\ bind' = Bound(req)
                           /\ out' = Returned(r)
                           /\ calls' = r.calls
                           /\ apis' = r.apis
                           /\ resp' = IF r.err # NoError
                                          THEN JSONError(StatusInternalServerError, r.err)
                                          ELSE JSONDocs(StatusOK, r.ret)
    /\ UNCHANGED jsonVars

Next == ServeProviders \/ ServeRates \/ ServeAccount

Spec == Init /\ [][Next]_vars

\* ------------------------------------------------- the encoding round trip
InitJSON ==
    /\ apis \in {[k \in {} |-> Backend(k)]}
    /\ ServeInit
    /\ jpc = "start"
    /\ input \in LendingProviders
    /\ wire = JNull
    /\ decoded = ZeroLendingProvider

Marshal ==
    /\ jpc = "start"
    /\ wire' = MarshalLendingProvider(input)
    /\ jpc' = "marshalled"
    /\ UNCHANGED <<input, decoded>>
    /\ UNCHANGED serveVars

Unmarshal ==
    /\ jpc = "marshalled"
    /\ decoded' = UnmarshalLendingProvider(wire)
    /\ jpc' = "unmarshalled"
    /\ UNCHANGED <<input, wire>>
    /\ UNCHANGED serveVars

NextJSON == Marshal \/ Unmarshal

SpecJSON == InitJSON /\ [][NextJSON]_vars

\* ------------------------------------------------------------------ claims
Lookup == op \in {"ServeRates", "ServeAccount"} /\ out.called
Known == param.val \in DOMAIN apis
Succeeded == {i \in DOMAIN calls : calls[i].err = NoError}
Failed == {i \in DOMAIN calls : calls[i].err # NoError}

\* C1: for a provider identifier that is not a key of the registry, getRates
\* and getAccounts return an "Unknown provider" error that names the requested
\* identifier, return the nil result, and invoke no backend method.
C1_UnknownProvider ==
    (Lookup /\ ~Known) =>
        /\ Len(out.err) = 2
        /\ out.err[1] = "Unknown provider "
        /\ out.err[2] = param.val
        /\ out.ret = NilSlice
        /\ calls = <<>>

C1_Witness ==
    /\ op = "ServeAccount" /\ out.called /\ ~Known
    /\ DOMAIN apis # {}
    /\ bind.req.Addresses.elems # <<>>

\* C2: the result of getProviders holds the descriptor of every backend whose
\* GetProviderInfo succeeded, each exactly once, and nothing else, whatever
\* the order in which the registry is visited.
C2_ListsExactlyTheSuccesses ==
    (op = "ServeProviders") =>
        /\ Len(out.ret.elems) = Cardinality(Succeeded)
        /\ \A i \in Succeeded : Count(out.ret.elems, calls[i].ret) = 1
        /\ \A j \in DOMAIN out.ret.elems :
              \E i \in Succeeded : calls[i].ret = out.ret.elems[j]

C2_Witness ==
    /\ op = "ServeProviders"
    /\ Succeeded # {} /\ Failed # {}
    /\ \E i \in Failed, j \in Succeeded : i < j
    /\ Len(out.ret.elems) = 1

\* C3: getProviders returns the nil error for every registry, ServeProviders
\* answers with the success status, and when every backend fails the returned
\* sequence is empty.
C3_ListNeverFails ==
    (op = "ServeProviders") =>
        /\ out.called /\ out.err = NoError
        /\ resp.status = StatusOK
        /\ resp.docs = out.ret
        /\ (Succeeded = {} => (out.ret.elems = <<>> /\ ~out.ret.nil))

C3_Witness ==
    /\ op = "ServeProviders"
    /\ Cardinality(Failed) >= 2 /\ Succeeded = {}
    /\ resp.status = StatusOK

\* C4: for a registered provider identifier, getRates returns exactly the
\* (result, error) pair that the mapped backend's GetCurrentLendingRates
\* returned for the request's asset symbols.
C4_RatesPassedThrough ==
    (op = "ServeRates" /\ out.called /\ Known) =>
        /\ Len(calls) >= 1
        /\ calls[1].api = apis[param.val]
        /\ calls[1].method = "GetCurrentLendingRates"
        /\ calls[1].arg = bind.req.Assets
        /\ out.ret = calls[1].ret
        /\ out.err = calls[1].err

C4_Witness ==
    /\ op = "ServeRates" /\ out.called /\ Known
    /\ out.err = <<"InvalidAsset">> /\ ~out.ret.nil
    /\ bind.req.Assets.elems # <<>>

\* C5: for a registered provider identifier, getAccounts hands the whole
\* AccountRequest, addresses and assets, to the mapped backend's
\* GetAccountLendingContracts and returns exactly the pair that call returned.
C5_AccountsPassedThrough ==
    (op = "ServeAccount" /\ out.called /\ Known) =>
        /\ Len(calls) >= 1
        /\ calls[1].api = apis[param.val]
        /\ calls[1].method = "GetAccountLendingContracts"
        /\ calls[1].arg = bind.req
        /\ out.ret = calls[1].ret
        /\ out.err = calls[1].err

C5_Witness ==
    /\ op = "ServeAccount" /\ out.called /\ Known
    /\ bind.req.Addresses.elems # <<>> /\ bind.req.Assets.elems # <<>>
    /\ out.err = <<"InvalidAddress">>

\* C6: a rates or account request that names an unregistered provider is
\* answered with a client error (a 4xx status carrying the "Unknown provider"
\* message), a status other than the one used for backend failures.
C6_UnknownProviderIsClientError ==
    (Lookup /\ ~Known) =>
        /\ resp.error = out.err
        /\ resp.status \in 400..499
        /\ resp.status # StatusInternalServerError

C8_MetaInfoOmittedAndRoundTrip ==
    (jpc = "unmarshalled") =>
        /\ \A i \in DOMAIN input.Assets.elems :
              input.Assets.elems[i].MetaInfo.DefiInfo = NilPtr =>
                  ~HasMember(GetMember(wire, "assets").items[i], "meta_info")
        /\ decoded = input

\* C9: no request changes the registry: its key set and its mapping stay what
\* they were, also after the lookup of an unknown identifier.
C9_RegistryUnchanged == [][apis' = apis]_vars

C9_Witness ==
    /\ op = "ServeRates" /\ out.called /\ ~Known
    /\ DOMAIN apis # {}
    /\ resp.error = <<"Unknown provider ", param.val>>

\* C10: one getProviders call invokes GetProviderInfo exactly once on every
\* registered backend, going on after a failure, and no other method; one
\* getRates or getAccounts call on a registered identifier invokes exactly one
\* method, once, on the backend mapped to that identifier.
C10_FanOut ==
    /\ (op = "ServeProviders") =>
          /\ Len(calls) = Cardinality(DOMAIN apis)
          /\ \A k \in DOMAIN apis :
                Cardinality({i \in DOMAIN calls : calls[i].api = apis[k]}) = 1
          /\ \A i \in DOMAIN calls : calls[i].method = "GetProviderInfo"
    /\ (Lookup /\ Known) =>
          /\ Len(calls) = 1
          /\ calls[1].api = apis[param.val]
          /\ calls[1].method = IF op = "ServeRates" THEN "GetCurrentLendingRates"
                               ELSE "GetAccountLendingContracts"

C10_Witness ==
    /\ op = "ServeProviders"
    /\ Len(calls) >= 2
    /\ calls[1].err # NoError
    /\ calls[Len(calls)].err = NoError

====
